---- MODULE Spec2Model ----
(***************************************************************************)
(* Sealed-bid auction contract (src/src/contract.rs, state.rs, msg.rs).    *)
(* One action per entry point of init/handle; every action is the whole    *)
(* handler, from loading the stored State to the returned HandleResponse.  *)
(***************************************************************************)
EXTENDS Integers, Sequences, FiniteSets, TLC

VARIABLES
    config,     \* the stored State singleton: <<>> before init, <<State>> after
    bids,       \* the bid bucket: address -> <<>> (no record) or <<Bid>>
    now,        \* env.block.time of the host
    msgs,       \* HandleResponse.messages of the last operation, in order
    resp,       \* the answer (log "response" or data) of the last operation
    sale_held,  \* ledger: sale-asset units received from an address and not yet requested out
    bid_held,   \* ledger: bid-asset units received from an address and not yet requested out
    sale_won,   \* ledger: sale-asset units requested to winners so far
    settled     \* ledger: number of operations that paid a winning bid to the seller

vars == <<config, bids, now, msgs, resp, sale_held, bid_held, sale_won, settled>>

----------------------------------------------------------------------------
(* Bounds of the model *)

\* largest value of the unsigned amount type (Uint128 scaled down)
UintMax == 3
\* largest block time
MaxTime == 1

----------------------------------------------------------------------------
(* Values *)

Addr == {"s", "x", "y"}
Creators == {"s"}
\* who deposits sale tokens and who calls finalize and return_all: the creator
\* and one other address
Callers == {"s", "x"}
SellContracts == {"snip_a", "snip_b"}
BidContracts == {"snip_b"}
Tokens == {"snip_a", "snip_b", "snip_c"}
Uint128 == 0..UintMax
\* the values of InitMsg and the amounts bid that the model draws
SellAmounts == {0, UintMax - 1}
\* (an auction without a minimum, and one whose minimum only the largest bid meets)
MinimumBids == {0, UintMax}
BidAmounts == {0, 1, UintMax}
\* largest sale-asset balance of one address the model follows: room for one
\* deposit that overflows the amount type
MaxCustody == UintMax + 1

None == <<>>
Some(v) == <<v>>
is_some(o) == o # <<>>
unwrap(o) == o[1]

Success == "Success"
Failure == "Failure"

----------------------------------------------------------------------------
(* Uint128 arithmetic *)

\* the wrapped result a build without overflow checks produces
WrapAdd(a, b) == (a + b) % (UintMax + 1)

\* a + b on Uint128 is the plain integer `+`: exact when it fits; when it does
\* not, the build either traps (None) or wraps
Uint128Add(a, b) ==
    IF a + b <= UintMax THEN {Some(a + b)} ELSE {None, Some(WrapAdd(a, b))}

----------------------------------------------------------------------------
(* Messages and answers *)

transfer_tokens_msg(contract_addr, recipient, amount) ==
    [contract_addr |-> contract_addr, recipient |-> recipient, amount |-> amount]

RegisterMsg(contract_addr) ==
    [contract_addr |-> contract_addr, recipient |-> "register_receive", amount |-> 0]

Answer(answer, status, message) ==
    [answer |-> answer, status |-> status, message |-> message,
     amount_consigned |-> None, amount_needed |-> None, amount_returned |-> None,
     previous_bid |-> None, amount_bid |-> None, winning_bid |-> None]

ConsignAnswer(status, message, amount_consigned, amount_needed, amount_returned) ==
    [Answer("consign", status, message) EXCEPT
        !.amount_consigned = amount_consigned,
        !.amount_needed = amount_needed,
        !.amount_returned = amount_returned]

BidAnswer(status, message, previous_bid, amount_bid, amount_returned) ==
    [Answer("bid", status, message) EXCEPT
        !.previous_bid = previous_bid,
        !.amount_bid = amount_bid,
        !.amount_returned = amount_returned]

CloseAuctionAnswer(status, message, winning_bid, amount_returned) ==
    [Answer("close_auction", status, message) EXCEPT
        !.winning_bid = winning_bid,
        !.amount_returned = amount_returned]

\* mutant: the answer to a retraction does not tell the amount
RetractBidAnswerNoAmount(status, message, amount_returned) ==
    Answer("retract_bid", status, message)

RetractBidAnswer(status, message, amount_returned) ==
    [Answer("retract_bid", status, message) EXCEPT !.amount_returned = amount_returned]

StatusAnswer(status, message) == Answer("status", status, message)

\* init returned Err, or the handler trapped: nothing is stored, nothing is sent
ErrAnswer(message) == Answer("error", "Err", message)

----------------------------------------------------------------------------
(* Stored state *)

State == config[1]

Bid(amount, timestamp) == [amount |-> amount, timestamp |-> timestamp]

NoBids == [a \in Addr |-> None]

\* amount of the stored bid of an address, 0 when there is none
BidAmount(b, a) == IF is_some(b[a]) THEN unwrap(b[a]).amount ELSE 0

----------------------------------------------------------------------------
(* Ledger of what the asset contracts moved in and were asked to move out *)

RECURSIVE SumTo(_, _, _)
\* total amount of the transfers of ms on contract c to recipient r
SumTo(ms, c, r) ==
    IF ms = <<>> THEN 0
    ELSE (IF Head(ms).contract_addr = c /\ Head(ms).recipient = r
          THEN Head(ms).amount ELSE 0) + SumTo(Tail(ms), c, r)

\* an operation that settles nothing: every transfer is a refund that leaves
\* the recipient's own balance
Refunded(held, ms, c) == [a \in Addr |-> held[a] - SumTo(ms, c, a)]

Credit(held, a, amount) == [held EXCEPT ![a] = @ + amount]

InCustody(held) == \A a \in Addr : held[a] <= MaxCustody

----------------------------------------------------------------------------
(* init *)

\* mutant: one asset can be sold for itself
InitMsgOkSameAsset(sell_contract, bid_contract, sell_amount) ==
    sell_amount # 0

\* mutant: nothing can be put up for sale
InitMsgOkAnyAmount(sell_contract, bid_contract, sell_amount) ==
    sell_contract # bid_contract

InitMsgOk(sell_contract, bid_contract, sell_amount) ==
    /\ sell_amount # 0
    /\ sell_contract # bid_contract

NewState(sender, sell_contract, bid_contract, sell_amount, minimum_bid) ==
    [seller |-> sender,
     sell_contract |-> sell_contract,
     bid_contract |-> bid_contract,
     sell_amount |-> sell_amount,
     minimum_bid |-> minimum_bid,
     currently_consigned |-> 0,
     bidders |-> {},
     is_completed |-> FALSE,
     tokens_consigned |-> FALSE]

init(sender, sell_contract, bid_contract, sell_amount, minimum_bid) ==
    /\ config = <<>>
    /\ IF ~InitMsgOk(sell_contract, bid_contract, sell_amount)
       THEN /\ resp' = ErrAnswer(IF sell_amount = 0
                                 THEN "Sell amount must be greater than 0"
                                 ELSE "Sell contract and bid contract must be different")
            /\ msgs' = <<>>
            /\ UNCHANGED config
       ELSE /\ config' = <<NewState(sender, sell_contract, bid_contract,
                                    sell_amount, minimum_bid)>>
            /\ msgs' = <<RegisterMsg(sell_contract), RegisterMsg(bid_contract)>>
            /\ resp' = Answer("init", "Ok", "")
    /\ UNCHANGED <<bids, now, sale_held, bid_held, sale_won, settled>>

----------------------------------------------------------------------------
(* try_consign *)

\* mutant: a deposit of somebody who is not the seller is consigned
ConsignRejectionAnyone(state, owner) ==
    IF state.is_completed
    THEN "Auction has ended. Your tokens have been returned"
    ELSE IF state.tokens_consigned
    THEN "Tokens to be sold have already been consigned. Your tokens have been returned"
    ELSE ""

\* mutant: the seller can still consign after the auction has ended
ConsignRejectionIgnoresEnd(state, owner) ==
    IF owner # state.seller
    THEN "Only auction creator can consign tokens for sale.  Your tokens have been returned"
    ELSE IF state.tokens_consigned
    THEN "Tokens to be sold have already been consigned. Your tokens have been returned"
    ELSE ""

\* the three rejections, in the order the code tests them; "" when accepted
ConsignRejection(state, owner) ==
    IF owner # state.seller
    THEN "Only auction creator can consign tokens for sale.  Your tokens have been returned"
    ELSE IF state.is_completed
    THEN "Auction has ended. Your tokens have been returned"
    ELSE IF state.tokens_consigned
    THEN "Tokens to be sold have already been consigned. Your tokens have been returned"
    ELSE ""

\* mutant: the whole total is recorded, excess included
ConsignStateUncapped(state, consign_total) ==
    IF consign_total < state.sell_amount
    THEN [state EXCEPT !.currently_consigned = consign_total]
    ELSE [state EXCEPT !.tokens_consigned = TRUE,
                       !.currently_consigned = consign_total]

\* mutant: a total that exactly meets sell_amount is still taken as partial
ConsignStateLate(state, consign_total) ==
    IF consign_total <= state.sell_amount
    THEN [state EXCEPT !.currently_consigned = consign_total]
    ELSE [state EXCEPT !.tokens_consigned = TRUE,
                       !.currently_consigned = state.sell_amount]

\* the state try_consign saves for a computed consign_total
ConsignState(state, consign_total) ==
    IF consign_total < state.sell_amount
    THEN [state EXCEPT !.currently_consigned = consign_total]
    ELSE [state EXCEPT !.tokens_consigned = TRUE,
                       !.currently_consigned = state.sell_amount]

ConsignExcess(state, consign_total) ==
    IF consign_total > state.sell_amount
    THEN Some(consign_total - state.sell_amount) ELSE None

ConsignNeeded(state, consign_total) ==
    IF consign_total < state.sell_amount
    THEN Some(state.sell_amount - consign_total) ELSE None

try_consign(owner, amount) ==
    LET state == State
        why == ConsignRejection(state, owner)
    IN
    IF why # ""
    THEN /\ msgs' = <<transfer_tokens_msg(state.sell_contract, owner, amount)>>
         /\ resp' = ConsignAnswer(Failure, why,
                        IF owner = state.seller /\ ~state.is_completed
                        THEN Some(state.currently_consigned) ELSE None,
                        None, Some(amount))
         /\ sale_held' = Refunded(Credit(sale_held, owner, amount), msgs', state.sell_contract)
         /\ UNCHANGED <<config, bids, now, bid_held, sale_won, settled>>
    ELSE \E total \in Uint128Add(state.currently_consigned, amount) :
         IF ~is_some(total)
         THEN \* the addition trapped: the transaction, deposit included, is undone
              /\ msgs' = <<>>
              /\ resp' = ErrAnswer("attempt to add with overflow")
              /\ UNCHANGED <<config, bids, now, sale_held, bid_held, sale_won, settled>>
         ELSE LET consign_total == unwrap(total)
                  excess == ConsignExcess(state, consign_total)
                  needed == ConsignNeeded(state, consign_total)
                  saved == ConsignState(state, consign_total)
              IN
              /\ config' = <<saved>>
              /\ msgs' = IF is_some(excess)
                         THEN <<transfer_tokens_msg(state.sell_contract, owner, unwrap(excess))>>
                         ELSE <<>>
              /\ resp' = ConsignAnswer(
                            IF is_some(needed) THEN Failure ELSE Success,
                            IF is_some(needed)
                            THEN "You have not consigned the full amount to be sold.  You need to consign additional tokens"
                            ELSE IF is_some(excess)
                            THEN "Tokens to be sold have been consigned to the auction.  Excess tokens have been returned"
                            ELSE "Tokens to be sold have been consigned to the auction",
                            Some(saved.currently_consigned), needed, excess)
              /\ sale_held' = Refunded(Credit(sale_held, owner, amount), msgs', state.sell_contract)
              /\ UNCHANGED <<bids, now, bid_held, sale_won, settled>>

----------------------------------------------------------------------------
(* try_bid *)

\* mutant: the bid of whoever is listed counts as the bidder's own
OldBidOfAnyone(state, b, bidder) ==
    IF bidder \in state.bidders THEN b[bidder]
    ELSE IF state.bidders # {} THEN b[CHOOSE a \in state.bidders : TRUE]
    ELSE None

\* the bid the bidder already has, when the bidder is listed and a record is stored
OldBid(state, b, bidder) ==
    IF bidder \in state.bidders THEN b[bidder] ELSE None

\* mutant: an equal bid replaces the old one
KeepsOldBidStrict(amount, old_amount) == amount < old_amount

\* a new bid that does not beat the bidder's own old bid is returned
KeepsOldBid(amount, old_amount) == amount <= old_amount

\* mutant: the replaced bid is not marked for return
ReturnAmountNone(old_bid) == None

\* what is refunded when a new bid replaces an old one
ReturnAmount(old_bid) == Some(old_bid.amount)

\* mutant: bids are still taken after the auction has ended
BidRejectionIgnoresEnd(state, old, amount) ==
    IF amount = 0
    THEN "Bid must be greater than 0"
    ELSE IF amount < state.minimum_bid
    THEN "Bid was less than minimum allowed.  Bid tokens have been returned"
    ELSE IF is_some(old) /\ KeepsOldBid(amount, unwrap(old).amount)
    THEN "New bid less than or equal to previous bid. Newly bid tokens have been returned"
    ELSE ""

\* mutant: a bid below the minimum is not turned away
BidRejectionNoMinimum(state, old, amount) ==
    IF state.is_completed
    THEN "Auction has ended. Bid tokens have been returned"
    ELSE IF amount = 0
    THEN "Bid must be greater than 0"
    ELSE IF is_some(old) /\ KeepsOldBid(amount, unwrap(old).amount)
    THEN "New bid less than or equal to previous bid. Newly bid tokens have been returned"
    ELSE ""

\* mutant: a bid of 0 is not turned away
BidRejectionTakesZero(state, old, amount) ==
    IF state.is_completed
    THEN "Auction has ended. Bid tokens have been returned"
    ELSE IF amount < state.minimum_bid
    THEN "Bid was less than minimum allowed.  Bid tokens have been returned"
    ELSE IF is_some(old) /\ KeepsOldBid(amount, unwrap(old).amount)
    THEN "New bid less than or equal to previous bid. Newly bid tokens have been returned"
    ELSE ""

\* rejections of a bid, in the order the code tests them; "" when accepted
BidRejection(state, old, amount) ==
    IF state.is_completed
    THEN "Auction has ended. Bid tokens have been returned"
    ELSE IF amount = 0
    THEN "Bid must be greater than 0"
    ELSE IF amount < state.minimum_bid
    THEN "Bid was less than minimum allowed.  Bid tokens have been returned"
    ELSE IF is_some(old) /\ KeepsOldBid(amount, unwrap(old).amount)
    THEN "New bid less than or equal to previous bid. Newly bid tokens have been returned"
    ELSE ""

\* mutant: the zero bid is sent back like every other rejected bid
BidRejectionRefundsAll(why) == TRUE

\* the zero bid is the one rejection that sends nothing back
BidRejectionRefunds(why) == why # "Bid must be greater than 0"

try_bid(bidder, amount) ==
    LET state == State
        old == OldBid(state, bids, bidder)
        why == BidRejection(state, old, amount)
    IN
    IF why # ""
    THEN /\ msgs' = IF BidRejectionRefunds(why)
                    THEN <<transfer_tokens_msg(state.bid_contract, bidder, amount)>>
                    ELSE <<>>
         /\ resp' = BidAnswer(Failure, why,
                        IF ~state.is_completed /\ amount # 0 /\ amount >= state.minimum_bid
                        THEN Some(unwrap(old).amount) ELSE None,
                        None,
                        IF BidRejectionRefunds(why) THEN Some(amount) ELSE None)
         /\ bid_held' = Refunded(Credit(bid_held, bidder, amount), msgs', state.bid_contract)
         /\ UNCHANGED <<config, bids, now, sale_held, sale_won, settled>>
    ELSE LET return_amount == IF is_some(old) THEN ReturnAmount(unwrap(old)) ELSE None
             new_bid == Bid(amount, now)
         IN
         /\ config' = <<[state EXCEPT !.bidders = @ \cup {bidder}]>>
         /\ bids' = [bids EXCEPT ![bidder] = Some(new_bid)]
         /\ msgs' = IF is_some(return_amount)
                    THEN <<transfer_tokens_msg(state.bid_contract, bidder, unwrap(return_amount))>>
                    ELSE <<>>
         /\ resp' = BidAnswer(Success,
                        IF is_some(return_amount)
                        THEN "Bid accepted. Previously bid tokens have been returned"
                        ELSE "Bid accepted",
                        None, Some(new_bid.amount), return_amount)
         /\ bid_held' = Refunded(Credit(bid_held, bidder, amount), msgs', state.bid_contract)
         /\ UNCHANGED <<now, sale_held, sale_won, settled>>

----------------------------------------------------------------------------
(* try_view_bid *)

\* NaiveDateTime::from_timestamp(t, 0).format("%Y-%m-%d %H:%M:%S"), for the
\* first seconds of the epoch
FormatTime(t) == "1970-01-01 00:00:0" \o ToString(t)

ViewMessage(found_bid) == "Bid placed " \o FormatTime(found_bid.timestamp) \o " UTC"

try_view_bid(bidder) ==
    /\ config # <<>>
    /\ LET state == State
           bid == OldBid(state, bids, bidder)
       IN
       /\ resp' = IF is_some(bid)
                  THEN BidAnswer(Success, ViewMessage(unwrap(bid)),
                                 None, Some(unwrap(bid).amount), None)
                  ELSE BidAnswer(Failure, "No active bid for address", None, None, None)
       /\ msgs' = <<>>
       /\ UNCHANGED <<config, bids, now, sale_held, bid_held, sale_won, settled>>

----------------------------------------------------------------------------
(* try_receive *)

try_receive(sender, from, amount) ==
    /\ config # <<>>
    /\ IF sender = State.sell_contract
       THEN try_consign(from, amount)
       ELSE IF sender = State.bid_contract
       THEN try_bid(from, amount)
       ELSE /\ msgs' = <<>>
            /\ resp' = StatusAnswer(Failure, "Address is not a token in this auction")
            /\ UNCHANGED <<config, bids, now, sale_held, bid_held, sale_won, settled>>
    /\ InCustody(sale_held')

----------------------------------------------------------------------------
(* try_retract *)

try_retract(bidder) ==
    /\ config # <<>>
    /\ LET state == State
           old == OldBid(state, bids, bidder)
       IN
       IF is_some(old)
       THEN /\ bids' = [bids EXCEPT ![bidder] = None]
            /\ config' = <<[state EXCEPT !.bidders = @ \ {bidder}]>>
            /\ msgs' = <<transfer_tokens_msg(state.bid_contract, bidder, unwrap(old).amount)>>
            /\ resp' = RetractBidAnswer(Success, "Bid retracted.  Tokens have been returned",
                                        Some(unwrap(old).amount))
            /\ bid_held' = Refunded(bid_held, msgs', state.bid_contract)
            /\ UNCHANGED <<now, sale_held, sale_won, settled>>
       ELSE /\ msgs' = <<>>
            /\ resp' = RetractBidAnswer(Failure, "No active bid for address", None)
            /\ UNCHANGED <<config, bids, now, sale_held, bid_held, sale_won, settled>>

----------------------------------------------------------------------------
(* try_finalize *)

RECURSIVE Orders(_)
\* the orders in which a HashSet of bidders can be iterated
Orders(S) ==
    IF S = {} THEN {<<>>}
    ELSE UNION {{<<a>> \o o : o \in Orders(S \ {a})} : a \in S}

\* the iteration orders of every set of addresses
BidderOrders == [S \in SUBSET Addr |-> Orders(S)]

OwnedBid(bidder, bid) == [bidder |-> bidder, bid |-> bid]

RECURSIVE LoadBids(_, _)
\* bid_list: the stored bids of the bidders, in iteration order
LoadBids(order, b) ==
    IF order = <<>> THEN <<>>
    ELSE (IF is_some(b[Head(order)])
          THEN <<OwnedBid(Head(order), unwrap(b[Head(order)]))>> ELSE <<>>)
         \o LoadBids(Tail(order), b)

\* mutant: the amounts are compared the wrong way round
CmpLessLargestFirst(a, b) ==
    \/ b.bid.amount < a.bid.amount
    \/ /\ a.bid.amount = b.bid.amount
       /\ b.bid.timestamp < a.bid.timestamp

\* mutant: the timestamps are compared the wrong way round
CmpLessEarliestFirst(a, b) ==
    \/ a.bid.amount < b.bid.amount
    \/ /\ a.bid.amount = b.bid.amount
       /\ a.bid.timestamp < b.bid.timestamp

\* the comparator of sort_by answers Less: smaller amount first, and among
\* equal amounts the later timestamp first
CmpLess(a, b) ==
    \/ a.bid.amount < b.bid.amount
    \/ /\ a.bid.amount = b.bid.amount
       /\ b.bid.timestamp < a.bid.timestamp

\* x placed behind every element of the sorted s that is not greater than it
InsertSorted(s, x) ==
    LET k == Cardinality({i \in 1..Len(s) : ~CmpLess(x, s[i])})
    IN SubSeq(s, 1, k) \o <<x>> \o SubSeq(s, k + 1, Len(s))

RECURSIVE sort_by(_)
\* Vec::sort_by, a stable sort
sort_by(list) ==
    IF list = <<>> THEN <<>>
    ELSE InsertSorted(sort_by(SubSeq(list, 1, Len(list) - 1)), list[Len(list)])

\* mutant: a winner is chosen whatever has been consigned
SelectsWinnerAlways(state) == ~state.is_completed

\* a winner is chosen only when closing a fully consigned auction
SelectsWinner(state) == state.tokens_consigned /\ ~state.is_completed

\* mutant: an auction without bids is never closed
FinalizeRejectionNeedsBids(state, sender, only_if_bids, return_all) ==
    IF return_all /\ ~state.is_completed
    THEN "return_all can only be executed after the auction has ended"
    ELSE IF ~return_all /\ sender # state.seller
    THEN "Only auction creator can finalize the sale"
    ELSE IF ~state.is_completed /\ state.bidders = {}
    THEN "Did not close because there are no active bids"
    ELSE ""

\* mutant: only_if_bids is not looked at
FinalizeRejectionIgnoresOnlyIfBids(state, sender, only_if_bids, return_all) ==
    IF return_all /\ ~state.is_completed
    THEN "return_all can only be executed after the auction has ended"
    ELSE IF ~return_all /\ sender # state.seller
    THEN "Only auction creator can finalize the sale"
    ELSE ""

\* mutant: anybody can finalize
FinalizeRejectionAnyone(state, sender, only_if_bids, return_all) ==
    IF return_all /\ ~state.is_completed
    THEN "return_all can only be executed after the auction has ended"
    ELSE IF ~state.is_completed /\ only_if_bids /\ state.bidders = {}
    THEN "Did not close because there are no active bids"
    ELSE ""

\* mutant: return_all does not wait for the end of the auction
FinalizeRejectionReturnAllEarly(state, sender, only_if_bids, return_all) ==
    IF ~return_all /\ sender # state.seller
    THEN "Only auction creator can finalize the sale"
    ELSE IF ~state.is_completed /\ only_if_bids /\ state.bidders = {}
    THEN "Did not close because there are no active bids"
    ELSE ""

\* rejections of a close, in the order the code tests them; "" when accepted
FinalizeRejection(state, sender, only_if_bids, return_all) ==
    IF return_all /\ ~state.is_completed
    THEN "return_all can only be executed after the auction has ended"
    ELSE IF ~return_all /\ sender # state.seller
    THEN "Only auction creator can finalize the sale"
    ELSE IF ~state.is_completed /\ only_if_bids /\ state.bidders = {}
    THEN "Did not close because there are no active bids"
    ELSE ""

RECURSIVE ReturnBidsToLast(_, _)
\* mutant: every returned bid is sent to the bidder of the last one
ReturnBidsToLast(list, bid_contract) ==
    IF list = <<>> THEN <<>>
    ELSE <<transfer_tokens_msg(bid_contract, list[Len(list)].bidder, Head(list).bid.amount)>>
         \o (IF Tail(list) = <<>> THEN <<>>
             ELSE ReturnBidsToLast(Tail(list), bid_contract))

RECURSIVE ReturnBids(_, _)
\* a transfer of each bid of the list back to its bidder, in list order
ReturnBids(list, bid_contract) ==
    IF list = <<>> THEN <<>>
    ELSE <<transfer_tokens_msg(bid_contract, Head(list).bidder, Head(list).bid.amount)>>
         \o ReturnBids(Tail(list), bid_contract)

\* mutant: nobody is taken off the list of bidders
BiddersNone(list) == {}

Bidders(list) == {list[i].bidder : i \in 1..Len(list)}

\* mutant: the winner is served before the seller
SwapMsgsWinnerFirst(state, winning_bid) ==
    <<transfer_tokens_msg(state.sell_contract, winning_bid.bidder, state.sell_amount),
      transfer_tokens_msg(state.bid_contract, state.seller, winning_bid.bid.amount)>>

\* the swap: the winning bid to the seller, the sale tokens to the winner
SwapMsgs(state, winning_bid) ==
    <<transfer_tokens_msg(state.bid_contract, state.seller, winning_bid.bid.amount),
      transfer_tokens_msg(state.sell_contract, winning_bid.bidder, state.sell_amount)>>

\* mutant: the end of the auction is not recorded
MarkCompletedNot(state) == state

\* mutant: the flag is flipped instead of set
MarkCompletedFlip(state) == [state EXCEPT !.is_completed = ~@]

\* the auction is marked as ended
MarkCompleted(state) == [state EXCEPT !.is_completed = TRUE]

\* mutant: every close reports the plain message
CloseMessagePlain(state, winning_amount, amount_returned, no_bids, return_all) ==
    "Auction has been closed"

CloseMessage(state, winning_amount, amount_returned, no_bids, return_all) ==
    IF is_some(winning_amount)
    THEN "Sale finalized.  You have been sent the winning bid tokens"
    ELSE IF is_some(amount_returned)
    THEN IF ~state.tokens_consigned
         THEN "Auction closed.  You have been returned the consigned tokens because you did not consign the full sale amount"
         ELSE IF no_bids
         THEN "Auction closed.  You have been returned the consigned tokens because there were no active bids"
         ELSE "Auction closed.  You have been returned the consigned tokens"
    ELSE IF return_all
    THEN "Outstanding funds have been returned"
    ELSE "Auction has been closed"

\* everything a close that is not rejected computes, for one iteration order
\* of the bidder set
Close(state, b, order, return_all) ==
    LET no_bids == state.bidders = {}
        loaded == LoadBids(order, b)
        selects == SelectsWinner(state) /\ loaded # <<>>
        sorted == IF SelectsWinner(state) THEN sort_by(loaded) ELSE loaded
        \* bid_list.pop()
        winning_bid == sorted[Len(sorted)]
        bid_list == IF selects THEN SubSeq(sorted, 1, Len(sorted) - 1) ELSE sorted
        winning_amount == IF selects THEN Some(winning_bid.bid.amount) ELSE None
        swap == IF selects THEN SwapMsgs(state, winning_bid) ELSE <<>>
        returns == ReturnBids(bid_list, state.bid_contract)
        \* currently_consigned once the swap is done
        left == IF selects THEN 0 ELSE state.currently_consigned
        consigned == IF left > 0
                     THEN <<transfer_tokens_msg(state.sell_contract, state.seller, left)>>
                     ELSE <<>>
        amount_returned == IF left > 0 /\ ~return_all THEN Some(left) ELSE None
    IN
    [state |-> MarkCompleted([state EXCEPT !.currently_consigned = 0,
                                           !.bidders = @ \ Bidders(loaded)]),
     removed |-> Bidders(loaded),
     swap |-> swap,
     returns |-> returns \o consigned,
     winner |-> IF selects THEN Some(winning_bid.bidder) ELSE None,
     answer |-> CloseAuctionAnswer(Success,
                    CloseMessage(state, winning_amount, amount_returned, no_bids, return_all),
                    winning_amount, amount_returned)]

try_finalize(sender, only_if_bids, return_all) ==
    /\ config # <<>>
    /\ LET state == State
           why == FinalizeRejection(state, sender, only_if_bids, return_all)
       IN
       IF why # ""
       THEN /\ msgs' = <<>>
            /\ resp' = CloseAuctionAnswer(Failure, why, None, None)
            /\ UNCHANGED <<config, bids, now, sale_held, bid_held, sale_won, settled>>
       ELSE \E order \in BidderOrders[state.bidders] :
            \E out \in {Close(state, bids, order, return_all)} :
            /\ config' = <<out.state>>
            /\ bids' = [a \in Addr |-> IF a \in out.removed THEN None ELSE bids[a]]
            /\ msgs' = out.swap \o out.returns
            /\ resp' = out.answer
            \* the swap takes the winning bid out of the winner's escrow and the
            \* sale tokens out of the seller's; every other transfer is a refund
            /\ bid_held' = Refunded(
                              IF is_some(out.winner)
                              THEN [bid_held EXCEPT ![unwrap(out.winner)] = @ - out.swap[1].amount]
                              ELSE bid_held,
                              out.returns, state.bid_contract)
            /\ sale_held' = Refunded(
                              IF is_some(out.winner)
                              THEN [sale_held EXCEPT ![state.seller] = @ - out.swap[2].amount]
                              ELSE sale_held,
                              out.returns, state.sell_contract)
            /\ sale_won' = IF is_some(out.winner) THEN sale_won + out.swap[2].amount ELSE sale_won
            /\ settled' = IF is_some(out.winner) THEN settled + 1 ELSE settled
            /\ UNCHANGED now

----------------------------------------------------------------------------
(* The host *)

\* block time only moves forward
Tick ==
    /\ now < MaxTime
    /\ now' = now + 1
    /\ UNCHANGED <<config, bids, msgs, resp, sale_held, bid_held, sale_won, settled>>

Create ==
    \E sender \in Creators, sell_contract \in SellContracts, bid_contract \in BidContracts,
       sell_amount \in SellAmounts, minimum_bid \in MinimumBids :
        init(sender, sell_contract, bid_contract, sell_amount, minimum_bid)

Receive ==
    \E sender \in Tokens, from \in Addr, amount \in Uint128 :
        /\ config # <<>>
        /\ sender = State.sell_contract => from \in Callers
        /\ sender = State.bid_contract => amount \in BidAmounts
        /\ sender \notin {State.sell_contract, State.bid_contract} => from = "x" /\ amount = 1
        /\ try_receive(sender, from, amount)

RetractBid == \E sender \in Addr : try_retract(sender)

ViewBid == \E sender \in Addr : try_view_bid(sender)

Finalize ==
    \E sender \in Callers, only_if_bids \in BOOLEAN :
        try_finalize(sender, only_if_bids, FALSE)

ReturnAll == \E sender \in Callers : try_finalize(sender, FALSE, TRUE)

Init ==
    /\ config = <<>>
    /\ bids = NoBids
    /\ now = 0
    /\ msgs = <<>>
    /\ resp = Answer("none", "", "")
    /\ sale_held = [a \in Addr |-> 0]
    /\ bid_held = [a \in Addr |-> 0]
    /\ sale_won = 0
    /\ settled = 0

Next ==
    \/ Create
    \/ Receive
    \/ RetractBid
    \/ ViewBid
    \/ Finalize
    \/ ReturnAll
    \/ Tick

Spec == Init /\ [][Next]_vars

----------------------------------------------------------------------------
(* Properties *)

Created == config # <<>>

RECURSIVE SumOver(_, _)
\* the sum of f[a] over the addresses a of S
SumOver(f, S) ==
    IF S = {} THEN 0
    ELSE LET a == CHOOSE x \in S : TRUE IN f[a] + SumOver(f, S \ {a})

\* Bid.amount of every address listed in bidders, 0 for the others
Escrowed == [a \in Addr |-> IF Created /\ a \in State.bidders THEN BidAmount(bids, a) ELSE 0]

\* C1: sale-asset conservation. What was received through Consign and has not
\* been requested out again, as a refund or to a winner, is exactly
\* currently_consigned: received = refunded + sent to a winner + currently_consigned.
C1_SaleConservation ==
    Created => SumOver(sale_held, Addr) = State.currently_consigned

\* C2: bid-asset conservation. What was received through PlaceBid and has not
\* been requested out again, as a refund or as the winning payment, is exactly
\* the sum of Bid.amount over bidders, after every operation.
C2_BidConservation ==
    SumOver(bid_held, Addr) = SumOver(Escrowed, Addr)

\* a close has just paid a winner and refunded a loser
C2_Witness ==
    /\ resp.answer = "close_auction"
    /\ is_some(resp.winning_bid)
    /\ Len(msgs) >= 3
    /\ SumOver(bid_held, Addr) = 0

\* C3: for every address b, what was received from b as bids and not yet
\* requested back to b or paid to the seller as b's winning bid is b's active
\* Bid.amount (0 if none); and sale-asset refunds go to the depositor: every
\* deposit of an address other than the seller is refunded to that address in
\* full, and the seller is never refunded more than the seller deposited.
C3_RightfulOwner ==
    /\ \A b \in Addr : bid_held[b] = Escrowed[b]
    /\ Created => /\ \A a \in Addr \ {State.seller} : sale_held[a] = 0
                  /\ sale_held[State.seller] >= 0

\* an under-consigned close has just returned the consignment to the seller
\* and the bids to two bidders
C3_Witness ==
    /\ resp.answer = "close_auction"
    /\ is_some(resp.amount_returned)
    /\ Len(msgs) >= 3
    /\ sale_held[State.seller] = 0

\* C4: at most one operation ever requests the winning bid to the seller
\* together with sell_amount to a winner, and the winners receive at most
\* sell_amount of the sale asset in total.
C4_SettledOnce ==
    /\ settled <= 1
    /\ Created => sale_won <= State.sell_amount

\* a close was accepted again after the auction had been settled
C4_Witness ==
    /\ settled = 1
    /\ sale_won = State.sell_amount
    /\ resp.answer = "close_auction"
    /\ resp.status = Success
    /\ ~is_some(resp.winning_bid)

\* the steps of the entry points, as seen from a property (the kind of the
\* answer is tested first: every step of try_finalize answers close_auction
\* and every step of try_bid answers bid)
FinalizeStep(sender, only_if_bids) ==
    /\ Created
    /\ resp'.answer = "close_auction"
    /\ try_finalize(sender, only_if_bids, FALSE)

ReturnAllStep(sender) ==
    /\ Created
    /\ resp'.answer = "close_auction"
    /\ try_finalize(sender, FALSE, TRUE)

BidStep(bidder, amount) ==
    /\ Created
    /\ resp'.answer = "bid"
    /\ try_receive(State.bid_contract, bidder, amount)

ConsignStep(owner, amount) ==
    /\ Created
    /\ resp'.answer \in {"consign", "error"}
    /\ try_receive(State.sell_contract, owner, amount)

RetractStep(bidder) ==
    /\ Created
    /\ resp'.answer = "retract_bid"
    /\ try_retract(bidder)

\* the depositors and amounts the host delivers for a calling contract
Received(sender) ==
    IF sender = State.sell_contract THEN Callers \X Uint128
    ELSE IF sender = State.bid_contract THEN Addr \X BidAmounts
    ELSE {<<"x", 1>>}

ReceiveStep(sender, from, amount) ==
    /\ Created
    /\ resp'.answer \in {"consign", "error", "bid", "status"}
    /\ try_receive(sender, from, amount)

ViewStep(bidder) ==
    /\ Created
    /\ resp'.answer = "bid"
    /\ try_view_bid(bidder)

HasBid(a) == Created /\ a \in State.bidders /\ is_some(bids[a])

\* C5: a Finalize by the seller on an open, fully consigned auction with at
\* least one bid pays a bidder w of maximal amount: first w's amount of the bid
\* asset to the seller, then sell_amount of the sale asset to w, then exactly one
\* refund of Bid.amount to every other bidder; it reports winning_bid = w's
\* amount and leaves no bidder, no Bid record, nothing consigned, completed.
C5_FinalizeSettlement ==
    [][\A only_if_bids \in BOOLEAN :
        (/\ Created
         /\ ~State.is_completed
         /\ State.tokens_consigned
         /\ State.bidders # {}
         /\ FinalizeStep(State.seller, only_if_bids))
        => \E w \in State.bidders :
            /\ \A b \in State.bidders : BidAmount(bids, b) <= BidAmount(bids, w)
            /\ Len(msgs') = Cardinality(State.bidders) + 1
            /\ msgs'[1] = [contract_addr |-> State.bid_contract,
                           recipient |-> State.seller,
                           amount |-> BidAmount(bids, w)]
            /\ msgs'[2] = [contract_addr |-> State.sell_contract,
                           recipient |-> w,
                           amount |-> State.sell_amount]
            /\ \A b \in State.bidders \ {w} :
                \E i \in 3..Len(msgs') :
                    msgs'[i] = [contract_addr |-> State.bid_contract,
                                recipient |-> b,
                                amount |-> BidAmount(bids, b)]
            /\ resp'.status = Success
            /\ resp'.winning_bid = Some(BidAmount(bids, w))
            /\ State'.bidders = {}
            /\ bids' = NoBids
            /\ State'.currently_consigned = 0
            /\ State'.is_completed
      ]_vars

\* a sale was finalized with a winner and two losers of different amounts
C5_Witness ==
    /\ resp.answer = "close_auction"
    /\ is_some(resp.winning_bid)
    /\ Len(msgs) = 4
    /\ msgs[3].amount < msgs[1].amount
    /\ State.is_completed

\* C6: when a Finalize selects a winner and bidders b1 and b2 both hold the
\* maximal amount with the timestamp of b1 earlier than that of b2, b2 does not
\* win, and b1 wins when no third bid of that amount is as early as b1's,
\* whatever the iteration order of the bidder set.
C6_TieBreak ==
    [][(/\ Created
        /\ is_some(resp'.winning_bid)
        /\ \E sender \in Addr, only_if_bids \in BOOLEAN : FinalizeStep(sender, only_if_bids))
       => \A b1, b2 \in Addr :
            (/\ HasBid(b1) /\ HasBid(b2)
             /\ BidAmount(bids, b1) = BidAmount(bids, b2)
             /\ \A b \in State.bidders : BidAmount(bids, b) <= BidAmount(bids, b1)
             /\ unwrap(bids[b1]).timestamp < unwrap(bids[b2]).timestamp)
            => /\ msgs'[2].recipient # b2
               /\ (\A b \in State.bidders \ {b1} :
                      BidAmount(bids, b) = BidAmount(bids, b1)
                      => unwrap(bids[b1]).timestamp < unwrap(bids[b]).timestamp)
                  => msgs'[2].recipient = b1
      ]_vars

\* a sale was finalized whose winner had tied with a refunded bidder
C6_Witness ==
    /\ resp.answer = "close_auction"
    /\ is_some(resp.winning_bid)
    /\ \E i \in 3..Len(msgs) : msgs[i].amount = unwrap(resp.winning_bid)

\* C7 as stated (Scenario B): X has an active bid of amount a and a different
\* bidder Y then bids the same amount a at a later time; Y's bid is rejected, Y
\* is refunded a, previous_bid = a is reported and X remains the only bidder.
C7_ScenarioB_AsStated ==
    [][(Created /\ resp'.answer = "bid") =>
       \A X, Y \in Addr : \A a \in BidAmounts :
        (/\ X # Y
         /\ HasBid(X)
         /\ State.bidders = {X}
         /\ BidAmount(bids, X) = a
         /\ unwrap(bids[X]).timestamp < now
         /\ BidStep(Y, a))
        => /\ resp'.status = Failure
           /\ resp'.previous_bid = Some(a)
           /\ msgs' = <<[contract_addr |-> State.bid_contract, recipient |-> Y, amount |-> a]>>
           /\ State'.bidders = {X}
      ]_vars

\* C7 as amended: a bid is measured against the bidder's own active bid only.
\* If X has an active bid of amount a on an open auction and X bids a again at
\* a later time, the new bid is rejected, X is refunded a, previous_bid = a is
\* reported and X's stored Bid keeps its amount and timestamp. If a different
\* bidder Y without an active bid bids a, the bid is accepted with no refund,
\* amount_bid = a is reported, and X and Y are both active bidders, X's Bid
\* untouched.
C7_ScenarioB_Amended ==
    [][(Created /\ resp'.answer = "bid") =>
       \A X, Y \in Addr : \A a \in BidAmounts :
        (/\ HasBid(X)
         /\ ~State.is_completed
         /\ BidAmount(bids, X) = a
         /\ unwrap(bids[X]).timestamp < now
         /\ ~HasBid(Y) \/ Y = X
         /\ BidStep(Y, a))
        => /\ bids'[X] = bids[X]
           /\ IF Y = X
              THEN /\ resp'.status = Failure
                   /\ resp'.previous_bid = Some(a)
                   /\ resp'.amount_returned = Some(a)
                   /\ msgs' = <<[contract_addr |-> State.bid_contract,
                                 recipient |-> X, amount |-> a]>>
                   /\ State'.bidders = State.bidders
              ELSE /\ resp'.status = Success
                   /\ resp'.previous_bid = None
                   /\ resp'.amount_bid = Some(a)
                   /\ resp'.amount_returned = None
                   /\ msgs' = <<>>
                   /\ State'.bidders = State.bidders \cup {Y}
                   /\ bids'[Y] = Some(Bid(a, now))
      ]_vars

\* two bidders hold bids of the same amount, the second placed later and
\* just accepted
C7_Witness ==
    /\ resp.answer = "bid"
    /\ resp.status = Success
    /\ msgs = <<>>
    /\ \E X, Y \in Addr :
        /\ HasBid(X) /\ HasBid(Y)
        /\ unwrap(bids[X]).amount = unwrap(bids[Y]).amount
        /\ unwrap(bids[X]).timestamp < unwrap(bids[Y]).timestamp
        /\ unwrap(bids[Y]).timestamp = now
        /\ resp.amount_bid = Some(unwrap(bids[Y]).amount)

\* C8: tokens_consigned and is_completed are one-way latches: no step takes
\* either from true to false (and the stored State is never deleted).
C8_Latches ==
    [][Created =>
        /\ config' # <<>>
        /\ State.tokens_consigned => State'.tokens_consigned
        /\ State.is_completed => State'.is_completed
      ]_vars

\* a fully consigned auction has been closed and a further close was accepted
C8_Witness ==
    /\ Created
    /\ State.tokens_consigned
    /\ State.is_completed
    /\ resp.answer = "close_auction"
    /\ resp.status = Success
    /\ msgs = <<>>

\* the answer of a ReturnAll that finds nothing to return
NothingToReturn ==
    [answer |-> "close_auction", status |-> Success,
     message |-> "Outstanding funds have been returned",
     amount_consigned |-> None, amount_needed |-> None, amount_returned |-> None,
     previous_bid |-> None, amount_bid |-> None, winning_bid |-> None]

\* C9: on a completed auction a ReturnAll requests no transfer, changes neither
\* the State nor the bids, and succeeds with the same answer every time; in
\* particular a ReturnAll that follows a ReturnAll repeats its answer.
C9_ReturnAllIdempotent ==
    [][\A sender \in Addr :
        (/\ Created
         /\ State.is_completed
         /\ ReturnAllStep(sender))
        => /\ msgs' = <<>>
           /\ UNCHANGED <<config, bids, sale_held, bid_held>>
           /\ resp' = NothingToReturn
           /\ resp.message = "Outstanding funds have been returned" => resp' = resp
      ]_vars

\* a ReturnAll was accepted on an auction that had been settled with a winner
C9_Witness ==
    /\ Created
    /\ State.is_completed
    /\ settled = 1
    /\ resp.message = "Outstanding funds have been returned"

\* C10: a bid of amount > old by a bidder whose active bid is old, on an open
\* auction and with amount >= minimum_bid, stores Bid{amount, now} for the
\* bidder, requests exactly one refund, of old, to the bidder, leaves bidders
\* unchanged and reports success with amount_bid = amount, amount_returned = old.
C10_BidReplacement ==
    [][(Created /\ resp'.answer = "bid") =>
       \A bidder \in Addr : \A amount \in BidAmounts :
        (/\ HasBid(bidder)
         /\ ~State.is_completed
         /\ amount > BidAmount(bids, bidder)
         /\ amount >= State.minimum_bid
         /\ BidStep(bidder, amount))
        => /\ bids' = [bids EXCEPT ![bidder] = Some(Bid(amount, now))]
           /\ msgs' = <<[contract_addr |-> State.bid_contract,
                         recipient |-> bidder,
                         amount |-> BidAmount(bids, bidder)]>>
           /\ resp'.status = Success
           /\ resp'.amount_bid = Some(amount)
           /\ resp'.amount_returned = Some(BidAmount(bids, bidder))
           /\ State'.bidders = State.bidders
      ]_vars

\* a higher bid has just replaced the bidder's old one
C10_Witness ==
    /\ resp.answer = "bid"
    /\ resp.status = Success
    /\ is_some(resp.amount_returned)
    /\ \E b \in Addr :
        /\ HasBid(b)
        /\ unwrap(bids[b]).amount = unwrap(resp.amount_bid)
        /\ unwrap(bids[b]).amount > unwrap(resp.amount_returned)
        /\ msgs = <<[contract_addr |-> State.bid_contract, recipient |-> b,
                     amount |-> unwrap(resp.amount_returned)]>>

\* C11 (I3): an address is in bidders if and only if a Bid record is stored
\* under it, and every stored Bid has amount > 0 and amount >= minimum_bid.
C11_BiddersHaveBids ==
    /\ ~Created => bids = NoBids
    /\ Created =>
        \A a \in Addr :
            /\ a \in State.bidders <=> is_some(bids[a])
            /\ is_some(bids[a]) => /\ unwrap(bids[a]).amount > 0
                                   /\ unwrap(bids[a]).amount >= State.minimum_bid

\* on an auction without a minimum a bidder has retracted while another
\* bidder's smallest possible bid stays recorded
C11_Witness ==
    /\ Created
    /\ State.minimum_bid = 0
    /\ resp.answer = "retract_bid"
    /\ resp.status = Success
    /\ \E a \in State.bidders : bids[a] # None /\ unwrap(bids[a]).amount = 1
    /\ \E a \in Addr \ State.bidders : bids[a] = None /\ msgs[1].recipient = a

\* C12 (I1): currently_consigned <= sell_amount in every reachable state.
C12_ConsignedAtMostSellAmount ==
    Created => State.currently_consigned <= State.sell_amount

\* a consignment larger than what was missing has just been accepted
C12_Witness ==
    /\ Created
    /\ resp.answer = "consign"
    /\ resp.status = Success
    /\ is_some(resp.amount_returned)
    /\ State.currently_consigned = State.sell_amount

\* C13 (I2): while tokens_consigned is false currently_consigned < sell_amount,
\* while tokens_consigned is true and is_completed is false
\* currently_consigned = sell_amount; and tokens_consigned turns true exactly in
\* the steps in which a Consign brings currently_consigned to sell_amount.
C13_ConsignedLatch ==
    /\ [](Created =>
            /\ ~State.tokens_consigned => State.currently_consigned < State.sell_amount
            /\ (State.tokens_consigned /\ ~State.is_completed)
                => State.currently_consigned = State.sell_amount)
    /\ [][Created =>
            (~State.tokens_consigned /\ State'.tokens_consigned)
            <=> (/\ ~State.tokens_consigned
                 /\ ~State.is_completed
                 /\ State'.currently_consigned = State.sell_amount
                 /\ \E amount \in Uint128 : ConsignStep(State.seller, amount))
         ]_vars

\* a consignment has just brought the total to exactly sell_amount
C13_Witness ==
    /\ Created
    /\ State.tokens_consigned
    /\ ~State.is_completed
    /\ resp.answer = "consign"
    /\ resp.status = Success
    /\ resp.amount_returned = None
    /\ sale_held[State.seller] = State.sell_amount

\* C14 (I4): once is_completed is true, a step that is not a ReturnAll changes
\* neither currently_consigned nor bidders, and a ReturnAll never increases
\* currently_consigned and never adds a member to bidders.
C14_FrozenAfterCompletion ==
    [][(Created /\ State.is_completed) =>
        /\ State'.currently_consigned <= State.currently_consigned
        /\ State'.bidders \subseteq State.bidders
        /\ (\A sender \in Addr : ~ReturnAllStep(sender))
           => /\ State'.currently_consigned = State.currently_consigned
              /\ State'.bidders = State.bidders
      ]_vars

\* the seller's deposit has been turned away on an auction that was closed
\* before it was fully consigned
C14_Witness ==
    /\ Created
    /\ State.is_completed
    /\ ~State.tokens_consigned
    /\ resp.answer = "consign"
    /\ resp.message = "Auction has ended. Your tokens have been returned"
    /\ msgs # <<>>
    /\ msgs[1].recipient = State.seller
    /\ msgs[1].amount > 0

\* C15: a Consign of amount by the seller on an auction neither completed nor
\* fully consigned, with total = currently_consigned + amount: if
\* total < sell_amount, currently_consigned becomes total, the result is a
\* failure with amount_needed = sell_amount - total and nothing is transferred;
\* otherwise tokens_consigned becomes true, currently_consigned becomes
\* sell_amount, the result is a success and total - sell_amount is refunded to
\* the seller if and only if total > sell_amount.
C15_ConsignAccumulation ==
    [][(Created /\ resp'.answer \in {"consign", "error"}) =>
       \A amount \in Uint128 :
        (/\ ~State.is_completed
         /\ ~State.tokens_consigned
         /\ ConsignStep(State.seller, amount))
        => LET total == State.currently_consigned + amount IN
           IF total < State.sell_amount
           THEN /\ State'.currently_consigned = total
                /\ ~State'.tokens_consigned
                /\ resp'.status = Failure
                /\ resp'.amount_needed = Some(State.sell_amount - total)
                /\ msgs' = <<>>
           ELSE /\ State'.tokens_consigned
                /\ State'.currently_consigned = State.sell_amount
                /\ resp'.status = Success
                /\ msgs' = IF total > State.sell_amount
                           THEN <<[contract_addr |-> State.sell_contract,
                                   recipient |-> State.seller,
                                   amount |-> total - State.sell_amount]>>
                           ELSE <<>>
      ]_vars

\* C16: a Consign of amount is rejected when the depositor is not the seller,
\* or the auction is completed, or tokens_consigned is already true; the
\* rejection requests exactly one sale-asset refund of amount to the depositor,
\* reports failure with amount_returned = amount and leaves the State and the
\* bids unchanged.
C16_ConsignRejections ==
    [][(Created /\ resp'.answer \in {"consign", "error"}) =>
       \A owner \in Addr : \A amount \in Uint128 :
        (/\ \/ owner # State.seller
            \/ State.is_completed
            \/ State.tokens_consigned
         /\ ConsignStep(owner, amount))
        => /\ msgs' = <<[contract_addr |-> State.sell_contract,
                         recipient |-> owner,
                         amount |-> amount]>>
           /\ resp'.status = Failure
           /\ resp'.amount_returned = Some(amount)
           /\ UNCHANGED <<config, bids>>
      ]_vars

\* a deposit of somebody else has been turned away while the seller's partial
\* consignment and a bid were held
C16_Witness ==
    /\ Created
    /\ resp.answer = "consign"
    /\ resp.status = Failure
    /\ msgs # <<>>
    /\ msgs[1].recipient # State.seller
    /\ msgs[1].amount > 0
    /\ State.currently_consigned > 0
    /\ State.bidders # {}

C18_ZeroBid_AsStated ==
    [][(Created /\ resp'.answer = "bid") =>
       \A bidder \in Addr :
        BidStep(bidder, 0)
        => /\ resp'.status = Failure
           /\ msgs' = <<>>
           /\ UNCHANGED <<config, bids>>
      ]_vars

\* C18 as amended: a PlaceBid of amount 0 is always rejected and leaves the
\* state unchanged. While the auction is not completed it requests no transfer
\* and reports no returned amount; once the auction is completed the end of the
\* auction is tested first and the rejection requests one bid-asset transfer of
\* amount 0 to the bidder and reports amount_returned = 0.
C18_ZeroBid_Amended ==
    [][(Created /\ resp'.answer = "bid") =>
       \A bidder \in Addr :
        BidStep(bidder, 0)
        => /\ resp'.status = Failure
           /\ UNCHANGED <<config, bids>>
           /\ IF State.is_completed
              THEN /\ msgs' = <<[contract_addr |-> State.bid_contract,
                                 recipient |-> bidder,
                                 amount |-> 0]>>
                   /\ resp'.amount_returned = Some(0)
              ELSE /\ msgs' = <<>>
                   /\ resp'.amount_returned = None
      ]_vars

\* a bid of 0 has been turned away on an open auction without a minimum that
\* holds a bid
C18_Witness ==
    /\ Created
    /\ ~State.is_completed
    /\ State.minimum_bid = 0
    /\ State.bidders # {}
    /\ resp.answer = "bid"
    /\ resp.message = "Bid must be greater than 0"
    /\ msgs = <<>>

\* C19: a RetractBid of a caller with an active bid deletes the Bid and removes
\* the caller from bidders, requests exactly one bid-asset refund of the stored
\* amount to the caller and reports success with amount_returned = that amount;
\* of a caller without an active bid it reports failure, requests nothing and
\* changes nothing. Other bidders' records and currently_consigned are
\* unchanged in both cases.
C19_RetractBid ==
    [][(Created /\ resp'.answer = "retract_bid") =>
       \A bidder \in Addr :
        RetractStep(bidder)
        => /\ State'.currently_consigned = State.currently_consigned
           /\ \A other \in Addr \ {bidder} :
                /\ bids'[other] = bids[other]
                /\ other \in State'.bidders <=> other \in State.bidders
           /\ IF HasBid(bidder)
              THEN /\ bids'[bidder] = None
                   /\ bidder \notin State'.bidders
                   /\ msgs' = <<[contract_addr |-> State.bid_contract,
                                 recipient |-> bidder,
                                 amount |-> BidAmount(bids, bidder)]>>
                   /\ resp'.status = Success
                   /\ resp'.amount_returned = Some(BidAmount(bids, bidder))
              ELSE /\ resp'.status = Failure
                   /\ msgs' = <<>>
                   /\ UNCHANGED <<config, bids>>
      ]_vars

\* a bidder has retracted while another bidder's bid and a partial
\* consignment stay in place
C19_Witness ==
    /\ Created
    /\ resp.answer = "retract_bid"
    /\ resp.status = Success
    /\ msgs # <<>>
    /\ resp.amount_returned = Some(msgs[1].amount)
    /\ ~HasBid(msgs[1].recipient)
    /\ State.bidders # {}
    /\ State.currently_consigned > 0

\* the message of a close that returns a consignment that was never completed
UnderConsignedMessage ==
    "Auction closed.  You have been returned the consigned tokens because you did not consign the full sale amount"

\* C20 as stated: whenever the seller calls Finalize on an auction that is not
\* completed, with tokens_consigned false and currently_consigned = c > 0, the
\* auction closes, no winner is selected, every active bid is refunded in full
\* to its bidder, c of the sale asset is refunded to the seller,
\* currently_consigned becomes 0 and the result is a success with
\* amount_returned = c and a message noting the under-consignment.
C20_UnderConsignedClose_AsStated ==
    [][(Created /\ resp'.answer = "close_auction") =>
       \A only_if_bids \in BOOLEAN :
        (/\ ~State.is_completed
         /\ ~State.tokens_consigned
         /\ State.currently_consigned > 0
         /\ FinalizeStep(State.seller, only_if_bids))
        => /\ State'.is_completed
           /\ State'.currently_consigned = 0
           /\ State'.bidders = {}
           /\ bids' = NoBids
           /\ Len(msgs') = Cardinality(State.bidders) + 1
           /\ \A b \in State.bidders :
                \E i \in 1..(Len(msgs') - 1) :
                    msgs'[i] = [contract_addr |-> State.bid_contract,
                                recipient |-> b,
                                amount |-> BidAmount(bids, b)]
           /\ msgs'[Len(msgs')] = [contract_addr |-> State.sell_contract,
                                   recipient |-> State.seller,
                                   amount |-> State.currently_consigned]
           /\ resp'.status = Success
           /\ resp'.winning_bid = None
           /\ resp'.amount_returned = Some(State.currently_consigned)
           /\ resp'.message = UnderConsignedMessage
      ]_vars

\* C20 as amended: the same, for every Finalize of the seller that is not
\* turned away for asking to close only if there are bids when there are none;
\* that one is rejected with a failure, requests nothing and changes nothing.
C20_UnderConsignedClose_Amended ==
    [][(Created /\ resp'.answer = "close_auction") =>
       \A only_if_bids \in BOOLEAN :
        (/\ ~State.is_completed
         /\ ~State.tokens_consigned
         /\ State.currently_consigned > 0
         /\ FinalizeStep(State.seller, only_if_bids))
        => IF only_if_bids /\ State.bidders = {}
           THEN /\ resp'.status = Failure
                /\ msgs' = <<>>
                /\ UNCHANGED <<config, bids>>
           ELSE /\ State'.is_completed
                /\ State'.currently_consigned = 0
                /\ State'.bidders = {}
                /\ bids' = NoBids
                /\ Len(msgs') = Cardinality(State.bidders) + 1
                /\ \A b \in State.bidders :
                     \E i \in 1..(Len(msgs') - 1) :
                         msgs'[i] = [contract_addr |-> State.bid_contract,
                                     recipient |-> b,
                                     amount |-> BidAmount(bids, b)]
                /\ msgs'[Len(msgs')] = [contract_addr |-> State.sell_contract,
                                        recipient |-> State.seller,
                                        amount |-> State.currently_consigned]
                /\ resp'.status = Success
                /\ resp'.winning_bid = None
                /\ resp'.amount_returned = Some(State.currently_consigned)
                /\ resp'.message = UnderConsignedMessage
      ]_vars

\* a partly consigned auction with two bids has just been closed by the seller
C20_Witness ==
    /\ Created
    /\ State.is_completed
    /\ ~State.tokens_consigned
    /\ resp.answer = "close_auction"
    /\ resp.message = UnderConsignedMessage
    /\ Len(msgs) = 3
    /\ msgs[3].recipient = State.seller
    /\ resp.amount_returned = Some(msgs[3].amount)

\* C21: a Finalize with only_if_bids = true on an auction that is not completed
\* and has no bidder returns a failure, requests no transfer and changes no
\* state. The auction stays open: in the state it leaves, a bid that meets the
\* minimum is accepted, and a deposit of the seller is consigned unless the full
\* amount has been consigned already.
C21_OnlyIfBidsRejection ==
    [][(Created /\ resp'.answer = "close_auction") =>
       \A sender \in Addr :
        (/\ ~State.is_completed
         /\ State.bidders = {}
         /\ FinalizeStep(sender, TRUE))
        => /\ resp'.status = Failure
           /\ msgs' = <<>>
           /\ UNCHANGED <<config, bids>>
           /\ ~State'.is_completed
           /\ ENABLED (/\ try_bid("x", UintMax)
                       /\ resp'.status = Success
                       /\ bids'["x"] = Some(Bid(UintMax, now)))
           /\ ~State.tokens_consigned
              => ENABLED (/\ try_consign(State.seller, 1)
                          /\ State'.currently_consigned = State.currently_consigned + 1)
      ]_vars

\* the seller asked to close only if there are bids while holding a
\* consignment and no bid
C21_Witness ==
    /\ Created
    /\ ~State.is_completed
    /\ State.currently_consigned > 0
    /\ State.bidders = {}
    /\ resp.answer = "close_auction"
    /\ resp.message = "Did not close because there are no active bids"

\* C22: a Finalize called by an address other than the seller is rejected with
\* a failure, no transfer and no state change, on open and completed auctions
\* and for both values of only_if_bids.
C22_FinalizeOnlySeller ==
    [][(Created /\ resp'.answer = "close_auction") =>
       \A sender \in Addr \ {State.seller} : \A only_if_bids \in BOOLEAN :
        FinalizeStep(sender, only_if_bids)
        => /\ resp'.status = Failure
           /\ msgs' = <<>>
           /\ UNCHANGED <<config, bids>>
      ]_vars

\* somebody else tried to finalize a fully consigned auction that holds bids
C22_Witness ==
    /\ Created
    /\ ~State.is_completed
    /\ State.tokens_consigned
    /\ State.bidders # {}
    /\ resp.answer = "close_auction"
    /\ resp.message = "Only auction creator can finalize the sale"

\* C23: a ReturnAll called by any address, the seller included, while
\* is_completed is false is rejected with a failure, no transfer and no state
\* change; once is_completed is true a ReturnAll of any caller succeeds.
C23_ReturnAllAfterEnd ==
    [][(Created /\ resp'.answer = "close_auction") =>
       \A sender \in Addr :
        ReturnAllStep(sender)
        => IF ~State.is_completed
           THEN /\ resp'.status = Failure
                /\ msgs' = <<>>
                /\ UNCHANGED <<config, bids>>
           ELSE resp'.status = Success
      ]_vars

\* a ReturnAll was turned away on an open auction that holds a consignment
\* and bids
C23_Witness ==
    /\ Created
    /\ ~State.is_completed
    /\ State.currently_consigned > 0
    /\ State.bidders # {}
    /\ resp.answer = "close_auction"
    /\ resp.message = "return_all can only be executed after the auction has ended"

\* C24: a receive notification is handled as Consign if and only if its
\* caller is the sale asset contract and as PlaceBid if and only if it is the
\* bid asset contract; from any other caller it yields a failure, requests no
\* transfer and changes no state. The two asset contracts of a created auction
\* differ, so no notification matches both.
C24_ReceiveRouting ==
    [][(Created /\ resp'.answer \in {"consign", "error", "bid", "status"}) =>
       /\ State.sell_contract # State.bid_contract
       /\ \A sender \in Tokens :
            (\E input \in Received(sender) : ReceiveStep(sender, input[1], input[2]))
            => /\ resp'.answer \in {"consign", "error"} <=> sender = State.sell_contract
               /\ resp'.answer = "bid" <=> sender = State.bid_contract
               /\ sender \notin {State.sell_contract, State.bid_contract}
                  => /\ resp'.answer = "status"
                     /\ resp'.status = Failure
                     /\ msgs' = <<>>
                     /\ UNCHANGED <<config, bids>>
      ]_vars

\* a notification of a contract that is neither asset was turned away while
\* the auction held a consignment and a bid
C24_Witness ==
    /\ Created
    /\ resp.answer = "status"
    /\ resp.status = Failure
    /\ msgs = <<>>
    /\ State.currently_consigned > 0
    /\ State.bidders # {}

\* C25: Create fails, storing nothing and emitting nothing, when sell_amount is
\* 0 or the sale asset is the bid asset; otherwise it stores a State with
\* seller = the creator, currently_consigned = 0, no bidder, tokens_consigned
\* and is_completed false, and emits exactly two register notices, the first to
\* the sale asset contract and the second to the bid asset contract.
C25_Create ==
    [][~Created =>
       \A sender \in Creators, sell_contract \in SellContracts,
          bid_contract \in BidContracts, sell_amount \in SellAmounts,
          minimum_bid \in MinimumBids :
        init(sender, sell_contract, bid_contract, sell_amount, minimum_bid)
        => IF sell_amount = 0 \/ sell_contract = bid_contract
           THEN /\ config' = <<>>
                /\ msgs' = <<>>
                /\ resp'.status = "Err"
                /\ bids' = NoBids
           ELSE /\ config' = <<[seller |-> sender,
                                sell_contract |-> sell_contract,
                                bid_contract |-> bid_contract,
                                sell_amount |-> sell_amount,
                                minimum_bid |-> minimum_bid,
                                currently_consigned |-> 0,
                                bidders |-> {},
                                is_completed |-> FALSE,
                                tokens_consigned |-> FALSE]>>
                /\ bids' = NoBids
                /\ Len(msgs') = 2
                /\ msgs'[1].contract_addr = sell_contract
                /\ msgs'[1].recipient = "register_receive"
                /\ msgs'[2].contract_addr = bid_contract
                /\ msgs'[2].recipient = "register_receive"
      ]_vars

\* an auction has just been created
C25_Witness ==
    /\ Created
    /\ resp.answer = "init"
    /\ Len(msgs) = 2
    /\ msgs[1].contract_addr = State.sell_contract
    /\ msgs[2].contract_addr = State.bid_contract
    /\ State.seller \in Creators
    /\ State.sell_amount > 0

\* a step of try_finalize, called as Finalize or as ReturnAll
CloseStep ==
    \/ \E sender \in Addr, only_if_bids \in BOOLEAN : FinalizeStep(sender, only_if_bids)
    \/ \E sender \in Addr : ReturnAllStep(sender)

\* C26: the transfer requests of a successful Close are in this order. With a
\* winner: the winning bid amount to the seller, then sell_amount of the sale
\* asset to the winner, then refunds of losing bids only, so no sale-asset
\* refund to the seller is requested by the operation that pays a winner.
\* Without a winner: every bid refund precedes the sale-asset refund of
\* currently_consigned to the seller, which is the last request when present.
C26_TransferOrder ==
    [][(Created /\ resp'.answer = "close_auction" /\ resp'.status = Success /\ CloseStep) =>
        IF is_some(resp'.winning_bid)
        THEN /\ Len(msgs') >= 2
             /\ msgs'[1] = [contract_addr |-> State.bid_contract,
                            recipient |-> State.seller,
                            amount |-> unwrap(resp'.winning_bid)]
             /\ msgs'[2].contract_addr = State.sell_contract
             /\ msgs'[2].recipient \in State.bidders
             /\ msgs'[2].amount = State.sell_amount
             /\ \A i \in 3..Len(msgs') :
                  /\ msgs'[i].contract_addr = State.bid_contract
                  /\ msgs'[i].recipient \in State.bidders \ {msgs'[2].recipient}
                  /\ msgs'[i].amount = BidAmount(bids, msgs'[i].recipient)
        ELSE \A i \in 1..Len(msgs') :
                IF msgs'[i].contract_addr = State.bid_contract
                THEN /\ msgs'[i].recipient \in State.bidders
                     /\ msgs'[i].amount = BidAmount(bids, msgs'[i].recipient)
                ELSE /\ i = Len(msgs')
                     /\ msgs'[i] = [contract_addr |-> State.sell_contract,
                                    recipient |-> State.seller,
                                    amount |-> State.currently_consigned]
      ]_vars

\* the seller has won the seller's own auction against one other bidder
C26_Witness ==
    /\ Created
    /\ resp.answer = "close_auction"
    /\ is_some(resp.winning_bid)
    /\ Len(msgs) = 3
    /\ msgs[2].recipient = State.seller
    /\ msgs[3].recipient # State.seller

\* the messages of a successful close other than the plain one
CloseMessages ==
    {"Sale finalized.  You have been sent the winning bid tokens",
     UnderConsignedMessage,
     "Auction closed.  You have been returned the consigned tokens because there were no active bids",
     "Auction closed.  You have been returned the consigned tokens",
     "Outstanding funds have been returned"}

\* C27 as stated: a successful Close reports "Auction has been closed" only
\* when it requested no transfer; every Close that requests a transfer (settles
\* a sale, refunds bids or returns consigned tokens) reports one of the other
\* messages.
C27_CloseMessage_AsStated ==
    [][(Created /\ resp'.answer = "close_auction" /\ resp'.status = Success /\ CloseStep) =>
        /\ resp'.message = "Auction has been closed" => msgs' = <<>>
        /\ msgs' # <<>> => resp'.message \in CloseMessages
      ]_vars

\* C27 as amended: a successful Close reports "Auction has been closed" only
\* when it selected no winner and returned no consigned tokens: it requested
\* either nothing or only refunds of the bids of an open auction to which
\* nothing was consigned. Every Close that settles a sale or returns consigned
\* tokens reports one of the other messages, a settled sale the sale-finalized
\* one.
C27_CloseMessage_Amended ==
    [][(Created /\ resp'.answer = "close_auction" /\ resp'.status = Success /\ CloseStep) =>
        /\ resp'.message \in CloseMessages \cup {"Auction has been closed"}
        /\ is_some(resp'.winning_bid)
           => resp'.message = "Sale finalized.  You have been sent the winning bid tokens"
        /\ (\E i \in 1..Len(msgs') : msgs'[i].contract_addr = State.sell_contract)
           => resp'.message \in CloseMessages
        /\ resp'.message = "Auction has been closed"
           => /\ resp'.winning_bid = None
              /\ resp'.amount_returned = None
              /\ \A i \in 1..Len(msgs') :
                   /\ msgs'[i].contract_addr = State.bid_contract
                   /\ msgs'[i].recipient \in State.bidders
                   /\ msgs'[i].amount = BidAmount(bids, msgs'[i].recipient)
              /\ msgs' # <<>> => /\ ~State.is_completed
                                 /\ State.currently_consigned = 0
                                 /\ ~State.tokens_consigned
      ]_vars

\* an auction to which nothing was consigned has been closed and its bids
\* refunded under the plain message
C27_Witness ==
    /\ Created
    /\ State.is_completed
    /\ resp.answer = "close_auction"
    /\ resp.message = "Auction has been closed"
    /\ Len(msgs) >= 2
    /\ \A i \in 1..Len(msgs) : msgs[i].contract_addr = State.bid_contract

\* C28: in every reachable state with is_completed true, bidders is empty, no
\* Bid record exists and currently_consigned = 0; so every successful Close of a
\* completed auction, the first ReturnAll and a repeated Finalize of the seller
\* included, requests no transfer and reports neither amount_returned nor
\* winning_bid.
C28_EmptyAfterCompletion ==
    /\ []((Created /\ State.is_completed) =>
            /\ State.bidders = {}
            /\ bids = NoBids
            /\ State.currently_consigned = 0)
    /\ [][(/\ Created
           /\ State.is_completed
           /\ resp'.answer = "close_auction"
           /\ resp'.status = Success
           /\ CloseStep)
          => /\ msgs' = <<>>
             /\ resp'.amount_returned = None
             /\ resp'.winning_bid = None
         ]_vars

\* the seller has finalized again an auction that had been settled
C28_Witness ==
    /\ Created
    /\ State.is_completed
    /\ sale_won > 0
    /\ resp.answer = "close_auction"
    /\ resp.message = "Auction has been closed"
    /\ msgs = <<>>

\* what a close leaves behind
Closed(state) ==
    /\ state.is_completed
    /\ state.bidders = {}
    /\ state.currently_consigned = 0

\* C29: in no reachable state with is_completed false is a Finalize of the
\* seller with only_if_bids = false turned away, nor one with only_if_bids =
\* true when bidders is not empty; and every Finalize of the seller that is not
\* turned away (what it does then is the same for both values of
\* only_if_bids), whatever the iteration order of the bidders, succeeds and
\* leaves is_completed true, no bidder, no Bid and currently_consigned = 0.
C29_SellerCanClose ==
    /\ []((Created /\ ~State.is_completed) =>
            /\ FinalizeRejection(State, State.seller, FALSE, FALSE) = ""
            /\ State.bidders # {}
               => FinalizeRejection(State, State.seller, TRUE, FALSE) = "")
    /\ [][(/\ Created
           /\ resp'.answer = "close_auction"
           /\ ~State.is_completed
           /\ FinalizeStep(State.seller, FALSE))
          => /\ resp'.status = Success
             /\ Closed(State')
             /\ bids' = NoBids
         ]_vars

\* the seller has closed an auction that held one bid and was not fully
\* consigned
C29_Witness ==
    /\ Created
    /\ Closed(State)
    /\ ~State.tokens_consigned
    /\ resp.answer = "close_auction"
    /\ resp.status = Success
    /\ resp.message = UnderConsignedMessage
    /\ Len(msgs) = 2

\* what an address B can see of the auction: the fields of the State that say
\* nothing about bidders, B's own Bid if B is a bidder, and the block time
OwnView(B) ==
    [is_completed |-> State.is_completed,
     minimum_bid |-> State.minimum_bid,
     bid_contract |-> State.bid_contract,
     own |-> IF B \in State.bidders THEN bids[B] ELSE None,
     time |-> now]

\* the result of a PlaceBid of B as a function of B's view: the transfers, the
\* status, the reported amounts and B's Bid afterwards
OwnBidResult(view, B, amount) ==
    LET refund == <<[contract_addr |-> view.bid_contract, recipient |-> B, amount |-> amount]>>
        rejected(ms, previous, returned) ==
            [msgs |-> ms, status |-> Failure, previous_bid |-> previous,
             amount_bid |-> None, amount_returned |-> returned, bid |-> view.own]
    IN
    IF view.is_completed THEN rejected(refund, None, Some(amount))
    ELSE IF amount = 0 THEN rejected(<<>>, None, None)
    ELSE IF amount < view.minimum_bid THEN rejected(refund, None, Some(amount))
    ELSE IF view.own # None /\ amount <= unwrap(view.own).amount
    THEN rejected(refund, Some(unwrap(view.own).amount), Some(amount))
    ELSE [msgs |-> IF view.own = None THEN <<>>
                   ELSE <<[contract_addr |-> view.bid_contract, recipient |-> B,
                           amount |-> unwrap(view.own).amount]>>,
          status |-> Success,
          previous_bid |-> None,
          amount_bid |-> Some(amount),
          amount_returned |-> IF view.own = None THEN None
                              ELSE Some(unwrap(view.own).amount),
          bid |-> Some(Bid(amount, view.time))]

\* the result of a RetractBid (retract = TRUE) or a ViewBid of B as a function
\* of B's view
OwnBidQuery(view, B, retract) ==
    [msgs |-> IF retract /\ view.own # None
              THEN <<[contract_addr |-> view.bid_contract, recipient |-> B,
                      amount |-> unwrap(view.own).amount]>>
              ELSE <<>>,
     status |-> IF view.own # None THEN Success ELSE Failure,
     previous_bid |-> None,
     amount_bid |-> IF ~retract /\ view.own # None
                    THEN Some(unwrap(view.own).amount) ELSE None,
     amount_returned |-> IF retract /\ view.own # None
                         THEN Some(unwrap(view.own).amount) ELSE None,
     bid |-> IF retract THEN None ELSE view.own]

\* the step produced the result r for B
Sees(B, r) ==
    /\ msgs' = r.msgs
    /\ resp'.status = r.status
    /\ resp'.previous_bid = r.previous_bid
    /\ resp'.amount_bid = r.amount_bid
    /\ resp'.amount_returned = r.amount_returned
    /\ bids'[B] = r.bid
    /\ B \in State'.bidders <=> r.bid # None

\* C30: the result of a PlaceBid, a RetractBid and a ViewBid of B (requested
\* transfers, status, reported amounts) and B's Bid afterwards are a function
\* of B's own view of the auction, in which the Bid records and the membership
\* in bidders of the other addresses do not occur: two states that differ only
\* in these give B the same result.
C30_SealedBids ==
    [][(Created /\ resp'.answer \in {"bid", "retract_bid"}) =>
       \A B \in Addr :
        /\ \A amount \in BidAmounts :
                BidStep(B, amount) => Sees(B, OwnBidResult(OwnView(B), B, amount))
        /\ RetractStep(B) => Sees(B, OwnBidQuery(OwnView(B), B, TRUE))
        /\ ViewStep(B) => Sees(B, OwnBidQuery(OwnView(B), B, FALSE))
      ]_vars

\* a bidder has looked at the bidder's own bid while another address holds a
\* larger one
C30_Witness ==
    /\ Created
    /\ resp.answer = "bid"
    /\ resp.status = Success
    /\ \E B \in Addr :
        /\ HasBid(B)
        /\ resp.message = ViewMessage(unwrap(bids[B]))
        /\ resp.amount_bid = Some(unwrap(bids[B]).amount)
        /\ \E other \in Addr \ {B} :
            HasBid(other) /\ unwrap(bids[other]).amount > unwrap(bids[B]).amount

\* C31: what a Finalize does is a function of the State and the Bid records
\* alone: for any two iteration orders of the bidder set the winner and the
\* list of transfer requests are the same, also when several maximal bids have
\* the same amount and the same timestamp.
C31_FinalizeDeterministic ==
    Created =>
        \A o1, o2 \in BidderOrders[State.bidders] :
            \A c1 \in {Close(State, bids, o1, FALSE)} :
            \A c2 \in {Close(State, bids, o2, FALSE)} :
                /\ c1.winner = c2.winner
                /\ c1.swap \o c1.returns = c2.swap \o c2.returns

\* the change of the escrow records in a step is what the step received less
\* what it requested out, for the bids of every address and for the consignment
BooksMatchTransfers ==
    /\ \A a \in Addr : bid_held'[a] - Escrowed'[a] = bid_held[a] - Escrowed[a]
    /\ SumOver(sale_held', Addr) - State'.currently_consigned
       = SumOver(sale_held, Addr) - State.currently_consigned

\* C32: an operation whose result is a Failure leaves the State and the bids
\* unchanged, except the seller's partial Consign, which reports Failure,
\* increases currently_consigned by exactly amount and requests no transfer;
\* and every operation applies, in the same operation, the bookkeeping change
\* that matches the transfers it requests.
C32_FailuresDoNotMutate ==
    [][Created =>
        /\ BooksMatchTransfers
        /\ resp'.status = Failure =>
            IF /\ resp'.answer = "consign"
               /\ ~State.is_completed
               /\ ~State.tokens_consigned
               /\ \E amount \in Uint128 : ConsignStep(State.seller, amount)
            THEN \E amount \in Uint128 :
                    /\ ConsignStep(State.seller, amount)
                    /\ config' = <<[State EXCEPT !.currently_consigned = @ + amount]>>
                    /\ msgs' = <<>>
                    /\ bids' = bids
            ELSE UNCHANGED <<config, bids>>
      ]_vars

\* C33: a Consign of the seller on an open auction that is not fully consigned
\* compares the exact sum currently_consigned + amount with sell_amount, for
\* every amount of the unsigned range; it never stores a currently_consigned
\* smaller than the one before, and every unit it received is either counted in
\* currently_consigned or refunded.
C33_NoWraparound ==
    [][(Created /\ resp'.answer \in {"consign", "error"}) =>
       \A amount \in Uint128 :
        (/\ ~State.is_completed
         /\ ~State.tokens_consigned
         /\ ConsignStep(State.seller, amount))
        => /\ State'.tokens_consigned
              <=> State.currently_consigned + amount >= State.sell_amount
           /\ State'.currently_consigned >= State.currently_consigned
           /\ sale_held'[State.seller] - State'.currently_consigned
              = sale_held[State.seller] - State.currently_consigned
      ]_vars

====
